---- MODULE Spec2Model ----
(***************************************************************************)
(* Verification model of pgan: the Normalizer / MultiNormalizer classes    *)
(* (pgan/data/normalizers.py) and the train() loops of DeepHPM, PINN       *)
(* (pgan/dynamics/navierstokes/physics.py) and GAN                         *)
(* (pgan/networks/generate.py).                                            *)
(*                                                                         *)
(* One behaviour exercises one component: from the idle state a component  *)
(* is picked (variable prog) and its operations are then stepped.          *)
(*                                                                         *)
(* Numbers handled by the normalizers are modelled as exact rationals      *)
(* <<n, d>> in lowest terms, d > 0 (the code computes in floating point).  *)
(* Array elements of the training sets are modelled by the index of the    *)
(* point they belong to, so an array is a sequence of point indices.       *)
(***************************************************************************)
EXTENDS Integers, Sequences, FiniteSets, TLC

\* ------------------------------------------------------------------ bounds
MaxAbs == 2
MaxColl == 3
MaxBoundary == 2
MaxBatchSize == 2
MaxEpochs == 2
MaxTest == 1
MaxDskip == 2
MaxWidth == 4

\* epoch % 10000 of the checkpoint test in GAN.train
CheckpointPeriod == 10000

\* ---------------------------------------------------- exact rational numbers
Abs(n) == IF n < 0 THEN -n ELSE n

RECURSIVE GCD(_, _)
GCD(a, b) == IF b = 0 THEN a ELSE GCD(b, a % b)

\* the rational n/d (d # 0) in lowest terms with a positive denominator
Rat(n, d) ==
    LET g == GCD(Abs(n), Abs(d))
        s == IF d < 0 THEN -1 ELSE 1
    IN  <<(s * n) \div g, (s * d) \div g>>

RInt(n) == <<n, 1>>
RAdd(p, q) == Rat(p[1] * q[2] + q[1] * p[2], p[2] * q[2])
RSub(p, q) == Rat(p[1] * q[2] - q[1] * p[2], p[2] * q[2])
RMul(p, q) == Rat(p[1] * q[1], p[2] * q[2])
RDiv(p, q) == Rat(p[1] * q[2], p[2] * q[1])
RLeq(p, q) == p[1] * q[2] <= q[1] * p[2]

\* --------------------------------------------------------------- Normalizer
\* Normalizer.__init__(xmin, xmax, pos)
Normalizer_init(xmin, xmax, pos) ==
    [xmin |-> xmin, xmax |-> xmax, denom |-> RSub(xmax, xmin), pos |-> pos]

\* fault-injected variants: forward without the factor 2.0, inverse without
\* the factor 0.5
Normalizer_forward_mut(self, x) ==
    IF self.pos
    THEN RDiv(RSub(x, self.xmin), self.denom)
    ELSE RSub(RDiv(RSub(x, self.xmin), self.denom), RInt(1))

Normalizer_inverse_mut(self, xn) ==
    IF self.pos
    THEN RAdd(RMul(self.denom, xn), self.xmin)
    ELSE RAdd(RMul(self.denom, RAdd(xn, RInt(1))), self.xmin)

\* Normalizer.forward(x)
Normalizer_forward(self, x) ==
    IF self.pos
    THEN RDiv(RSub(x, self.xmin), self.denom)
    ELSE RSub(RDiv(RMul(RInt(2), RSub(x, self.xmin)), self.denom), RInt(1))

\* Normalizer.inverse(xn)
Normalizer_inverse(self, xn) ==
    IF self.pos
    THEN RAdd(RMul(self.denom, xn), self.xmin)
    ELSE RAdd(RMul(RMul(Rat(1, 2), self.denom), RAdd(xn, RInt(1))), self.xmin)

\* ------------------------------------------------------------ MultiVariable
\* pgan.models.MultiVariable: an ordered mapping from variable name to value,
\* here a sequence of <<name, value>> pairs with distinct names.
MV_names(mv) == {mv[i][1] : i \in 1..Len(mv)}

MV_get(mv, name) == mv[CHOOSE i \in 1..Len(mv) : mv[i][1] = name][2]

MV_set(mv, name, value) ==
    IF name \in MV_names(mv)
    THEN [i \in 1..Len(mv) |-> IF mv[i][1] = name THEN <<name, value>> ELSE mv[i]]
    ELSE Append(mv, <<name, value>>)

\* outcome of a call: a returned value or a raised exception
Returned(v) == [exc |-> "none", val |-> v]
Raised(e) == [exc |-> e, val |-> <<>>]

\* ---------------------------------------------------------- MultiNormalizer
\* MultiNormalizer.__init__(**kwargs): kwargs is a sequence of <<name, norm>>
\* (every value is a Normalizer, so the isinstance assertion passes)
MultiNormalizer_init(kwargs) == [normalizers |-> kwargs]

\* the loop of MultiNormalizer.forward from item i on, out built so far
RECURSIVE MultiNormalizer_forward_loop(_, _, _, _)
MultiNormalizer_forward_loop(self, multi_var, i, out) ==
    IF i > Len(self.normalizers) THEN Returned(out)
    ELSE LET varname == self.normalizers[i][1]
             normalizer == self.normalizers[i][2]
         IN  IF varname \notin MV_names(multi_var) THEN Raised("KeyError")
             ELSE MultiNormalizer_forward_loop(self, multi_var, i + 1,
                      MV_set(out, varname,
                             Normalizer_forward(normalizer, MV_get(multi_var, varname))))

\* fault-injected variant: the entry of the first registered name is copied
\* through untransformed
MultiNormalizer_forward_mut(self, multi_var) ==
    IF Len(self.normalizers) = 0 \/ self.normalizers[1][1] \notin MV_names(multi_var)
    THEN MultiNormalizer_forward_loop(self, multi_var, 1, <<>>)
    ELSE MultiNormalizer_forward_loop(self, multi_var, 2,
             <<  <<self.normalizers[1][1], MV_get(multi_var, self.normalizers[1][1])>>  >>)

\* MultiNormalizer.forward(multi_var)
MultiNormalizer_forward(self, multi_var) ==
    MultiNormalizer_forward_loop(self, multi_var, 1, <<>>)

\* names bound at module level in normalizers.py, and the local names of
\* MultiNormalizer.inverse
normalizers_globals == {"OrderedDict", "MultiVariable", "Normalizer", "MultiNormalizer"}
inverse_locals == {"self", "multi_var", "out", "varname", "normalizer"}

\* MultiNormalizer.inverse(multi_var): the loop body reads the name mult_var,
\* which is neither a local nor a global of the module, so the first iteration
\* raises NameError; with no registered normalizer the loop body never runs.
\* (The last branch is never taken: it stands for mult_var being bound.)
MultiNormalizer_inverse(self, multi_var) ==
    IF Len(self.normalizers) = 0 THEN Returned(<<>>)
    ELSE IF "mult_var" \notin (inverse_locals \cup normalizers_globals)
         THEN Raised("NameError")
         ELSE Raised("unreachable")

\* -------------------------------------------------- training loops: helpers
\* int(np.ceil(n / k)) for n >= 0, k >= 1
CeilDiv(n, k) == (n + k - 1) \div k

Min(x, y) == IF x <= y THEN x ELSE y

\* arr[lo:hi] of Python/numpy for 0 <= lo <= hi (arr is 1-based here)
PySlice(arr, lo, hi) == SubSeq(arr, lo + 1, Min(hi, Len(arr)))

\* arr[ind], numpy indexing of an array by an index array
Take(arr, ind) == [i \in 1..Len(ind) |-> arr[ind[i]]]

\* np.random.permutation(n): every ordering of the n indices
Permutation(n) == {p \in [1..n -> 1..n] : \A i, j \in 1..n : p[i] = p[j] => i = j}

\* a per-point array of n points: element i belongs to point i
Arr(n) == [i \in 1..n |-> i]

\* the dataset object handed to train (and the held-out one): boundary arrays
\* of nb points, collocation arrays of nc points
DataSet(nb, nc) ==
    [x |-> Arr(nb), y |-> Arr(nb), t |-> Arr(nb), w |-> Arr(nb),
     xcoll |-> Arr(nc), ycoll |-> Arr(nc), ucoll |-> Arr(nc), vcoll |-> Arr(nc),
     wcoll |-> Arr(nc), tcoll |-> Arr(nc)]

\* sess.run(fetches, feed_dict): number of optimizer steps it performs
SessRunSteps(fetches) == IF "train_op" \in fetches THEN 1 ELSE 0

\* ------------------------------------------------------------ DeepHPM.train
\* n_batches of DeepHPM.train
DeepHPM_n_batches_mut(n_train, batch_size) == n_train \div batch_size

DeepHPM_n_batches(n_train, batch_size) == CeilDiv(n_train, batch_size)

\* the shuffle of an epoch: six arrays indexed by the one permutation ind
DeepHPM_shuffle_mut(train, ind) ==
    [X |-> Take(train.xcoll, ind), Y |-> Take(train.ycoll, ind),
     U |-> Take(train.ucoll, ind), V |-> Take(train.vcoll, ind),
     W |-> train.wcoll, T |-> Take(train.tcoll, ind)]

DeepHPM_shuffle(train, ind) ==
    [X |-> Take(train.xcoll, ind), Y |-> Take(train.ycoll, ind),
     U |-> Take(train.ucoll, ind), V |-> Take(train.vcoll, ind),
     W |-> Take(train.wcoll, ind), T |-> Take(train.tcoll, ind)]

\* the feed dictionary of minibatch b
DeepHPM_feed(sh, start, batch_size) ==
    [T |-> PySlice(sh.T, start, start + batch_size),
     X |-> PySlice(sh.X, start, start + batch_size),
     Y |-> PySlice(sh.Y, start, start + batch_size),
     U |-> PySlice(sh.U, start, start + batch_size),
     V |-> PySlice(sh.V, start, start + batch_size),
     W |-> PySlice(sh.W, start, start + batch_size)]

\* what the training run and the held-out run fetch
DeepHPM_train_fetches == {"train_op", "solution_loss", "pde_loss"}

DeepHPM_test_fetches_mut == {"train_op", "solution_loss", "pde_loss"}

DeepHPM_test_fetches == {"solution_loss", "pde_loss"}

\* the feed dictionary of the held-out evaluation
DeepHPM_test_feed(test) ==
    [X |-> test.xcoll, Y |-> test.ycoll, T |-> test.tcoll,
     U |-> test.ucoll, V |-> test.vcoll, W |-> test.wcoll]

\* --------------------------------------------------------------- PINN.train
PINN_n_batches(n_train, batch_size) == CeilDiv(n_train, batch_size)

PINN_boundary_batch(n_boundary, nb) == CeilDiv(n_boundary, nb)

PINN_n_batches_boundary(n_boundary, bb) == CeilDiv(n_boundary, bb)

\* the two shuffles of an epoch
PINN_shuffle_boundary(train, ind) ==
    [Xb |-> Take(train.x, ind), Yb |-> Take(train.y, ind),
     Tb |-> Take(train.t, ind), Wb |-> Take(train.w, ind)]

PINN_shuffle_coll(train, ind) ==
    [Xcoll |-> Take(train.xcoll, ind), Ycoll |-> Take(train.ycoll, ind),
     Ucoll |-> Take(train.ucoll, ind), Vcoll |-> Take(train.vcoll, ind),
     Tcoll |-> Take(train.tcoll, ind)]

\* fault-injected variant: the boundary slices start at the collocation
\* offset start instead of start_boundary
PINN_feed_mut(sb, sc, startb, bbatch, start, batch_size) ==
    [Xb |-> PySlice(sb.Xb, start, start + bbatch),
     Yb |-> PySlice(sb.Yb, start, start + bbatch),
     Tb |-> PySlice(sb.Tb, start, start + bbatch),
     Wb |-> PySlice(sb.Wb, start, start + bbatch),
     Xcoll |-> PySlice(sc.Xcoll, start, start + batch_size),
     Ycoll |-> PySlice(sc.Ycoll, start, start + batch_size),
     Ucoll |-> PySlice(sc.Ucoll, start, start + batch_size),
     Vcoll |-> PySlice(sc.Vcoll, start, start + batch_size),
     Tcoll |-> PySlice(sc.Tcoll, start, start + batch_size)]

\* the feed dictionary of minibatch b
PINN_feed(sb, sc, startb, bbatch, start, batch_size) ==
    [Xb |-> PySlice(sb.Xb, startb, startb + bbatch),
     Yb |-> PySlice(sb.Yb, startb, startb + bbatch),
     Tb |-> PySlice(sb.Tb, startb, startb + bbatch),
     Wb |-> PySlice(sb.Wb, startb, startb + bbatch),
     Xcoll |-> PySlice(sc.Xcoll, start, start + batch_size),
     Ycoll |-> PySlice(sc.Ycoll, start, start + batch_size),
     Ucoll |-> PySlice(sc.Ucoll, start, start + batch_size),
     Vcoll |-> PySlice(sc.Vcoll, start, start + batch_size),
     Tcoll |-> PySlice(sc.Tcoll, start, start + batch_size)]

PINN_train_fetches == {"train_op", "b_loss", "f_loss"}

PINN_test_fetches == {"b_loss", "f_loss"}

PINN_test_feed(test) ==
    [Xb |-> test.x, Yb |-> test.y, Tb |-> test.t, Wb |-> test.w,
     Xcoll |-> test.xcoll, Ycoll |-> test.ycoll, Ucoll |-> test.ucoll,
     Vcoll |-> test.vcoll, Tcoll |-> test.tcoll]

\* ---------------------------------------------------------------- GAN.train
\* names bound at module level in generate.py (its imports and classes), and
\* the parameters and locals of GAN.train assigned before line 155
generate_globals ==
    {"tf", "DenseNet", "Model", "GAN", "Encoder", "Discriminator", "Generator"}
GAN_train_locals ==
    {"self", "Xb_train", "Tb_train", "Ub_train", "Xcoll_train", "Tcoll_train",
     "batch_size", "n_epochs", "dskip", "verbose", "n_train"}

\* ------------------------------------------------------------------ Encoder
\* Encoder.__init__(layer_sizes)
Encoder_init(layer_sizes) ==
    [layer_sizes |-> layer_sizes,
     latent_dim |-> layer_sizes[Len(layer_sizes)] \div 2]

\* rows the dense network can put out: one value per unit of its last layer
DenseNet_rows(layer_sizes) == [1..layer_sizes[Len(layer_sizes)] -> 0..1]

\* tf.nn.softplus(v), kept symbolic
Softplus(v) == <<"softplus", v>>

\* fault-injected variant: the scale is taken from the mean's columns
Encoder_call_mut(self, gaussian_params) ==
    [mean |-> PySlice(gaussian_params, 0, self.latent_dim),
     std |-> [i \in 1..self.latent_dim |-> Softplus(gaussian_params[i])]]

\* Encoder.call, from the dense output on: one row of gaussian_params is
\* split into the mean (columns [:latent_dim]) and the scale (softplus of the
\* columns [latent_dim:])
Encoder_call(self, gaussian_params) ==
    [mean |-> PySlice(gaussian_params, 0, self.latent_dim),
     std |-> LET rest == PySlice(gaussian_params, self.latent_dim, Len(gaussian_params))
             IN  [i \in 1..Len(rest) |-> Softplus(rest[i])]]

\* GAN.build: number of columns of the prior sample z_prior
GAN_build_latent_width(enc) == enc.latent_dim

NoCall == [params |-> <<>>, mean |-> <<>>, std |-> <<>>, prior_width |-> 0]

\* ------------------------------------------------------------------- state
VARIABLES
    prog,       \* the component this behaviour exercises ("idle" before any)
    norm,       \* the Normalizer object
    calls,      \* Normalizer calls made: records [op, arg, ret], newest last
    mnorm,      \* the MultiNormalizer object
    mcalls,     \* MultiNormalizer calls made: records [op, arg, ret]
    pc,         \* position of train: idle, epoch, batch, endepoch, done, raised
    args,       \* the arguments train was called with
    exc,        \* the exception train raised ("none" if none)
    n_batches, boundary_batch, n_batches_boundary,   \* locals of train
    epoch, b, start, start_boundary,                 \* locals of train
    ind,        \* the last permutation drawn
    bnd,        \* the shuffled boundary arrays of this epoch (PINN)
    coll,       \* the shuffled collocation arrays of this epoch
    feeds,      \* feed dictionaries of this epoch's minibatch runs, in order
    trace,      \* this epoch's events, in order: "step", "eval", "log"
    steps,      \* optimizer steps performed since train was called
    evals,      \* held-out evaluations run since train was called
    last_eval,  \* <<feed dictionary>> of the last held-out evaluation
    logs,       \* epochs of the log lines emitted
    gen_steps, disc_steps,   \* GAN: generator / discriminator optimizer steps
    checkpoints,\* GAN: epochs e for which checkpoints_<e> was saved
    gan_losses, \* GAN: the rows of the losses array train has written
    encoder,    \* the Encoder object
    q_z         \* what the last Encoder.call computed

normvars == <<norm, calls, mnorm, mcalls>>
loopvars == <<n_batches, boundary_batch, n_batches_boundary, epoch, b, start,
              start_boundary, ind, bnd, coll, feeds, trace, steps, evals,
              last_eval, logs>>
ganvars == <<gen_steps, disc_steps, checkpoints, gan_losses, encoder, q_z>>
trainvars == <<pc, args, exc, loopvars, ganvars>>

vars == <<prog, normvars, trainvars>>

\* ------------------------------------------------------------------ inputs
Ints == (-MaxAbs)..MaxAbs
\* arguments of forward: multiples of 1/2 in and just outside the ranges
XInputs == {Rat(k, 2) : k \in (-2 * MaxAbs - 1)..(2 * MaxAbs + 1)}
\* arguments of inverse: multiples of 1/4 in and just outside [-1, 1]
XnInputs == {Rat(k, 4) : k \in (-5)..5}

VarNames == <<"a", "b", "c">>
\* normalizers that can be registered in a MultiNormalizer
MNChoices == {Normalizer_init(RInt(0), RInt(hi), p) : hi \in 1..MaxAbs, p \in BOOLEAN}
\* registrations: ordered, distinct names among "a", "b"
MNKwargs ==
    {<<>>}
    \cup {<< <<n, z>> >> : n \in {"a", "b"}, z \in MNChoices}
    \cup {kw \in {<< <<n, z1>>, <<m, z2>> >> : n \in {"a", "b"}, m \in {"a", "b"},
                                               z1 \in MNChoices, z2 \in MNChoices} :
             kw[1][1] # kw[2][1]}
\* MultiVariable inputs: any sub-sequence of a, b, c with values 0 or 1
RECURSIVE MVInputsFrom(_)
MVInputsFrom(i) ==
    IF i > Len(VarNames) THEN {<<>>}
    ELSE LET rest == MVInputsFrom(i + 1)
         IN  rest \cup {<< <<VarNames[i], RInt(v)>> >> \o r : v \in 0..1, r \in rest}
MVInputs == MVInputsFrom(1)

\* arguments of train: sizes of the training set, batch_size, n_epochs, the
\* held-out set (test.given = FALSE models test=None), verbose, dskip
TestChoices == {[given |-> FALSE, n |-> 0]} \cup {[given |-> TRUE, n |-> k] : k \in 1..MaxTest}
NoArgs == [n_boundary |-> 0, n_train |-> 0, batch_size |-> 0, n_epochs |-> 0,
           test |-> [given |-> FALSE, n |-> 0], verbose |-> FALSE, dskip |-> 0]

NoNormalizer == [xmin |-> RInt(0), xmax |-> RInt(0), denom |-> RInt(0), pos |-> FALSE]

Init ==
    /\ prog = "idle"
    /\ norm = NoNormalizer
    /\ calls = <<>>
    /\ mnorm = MultiNormalizer_init(<<>>)
    /\ mcalls = <<>>
    /\ pc = "idle"
    /\ args = NoArgs
    /\ exc = "none"
    /\ n_batches = 0 /\ boundary_batch = 0 /\ n_batches_boundary = 0
    /\ epoch = 0 /\ b = 0 /\ start = 0 /\ start_boundary = 0
    /\ ind = <<>> /\ bnd = <<>> /\ coll = <<>>
    /\ feeds = <<>> /\ trace = <<>>
    /\ steps = 0 /\ evals = 0 /\ last_eval = <<>> /\ logs = <<>>
    /\ gen_steps = 0 /\ disc_steps = 0 /\ checkpoints = {}
    /\ gan_losses = <<>>
    /\ encoder = Encoder_init(<<0>>)
    /\ q_z = NoCall

\* ------------------------------------------------------- Normalizer actions
\* Normalizer(xmin, xmax, pos) with xmin < xmax
Normalizer_new ==
    /\ prog = "idle"
    /\ \E xmin \in Ints, xmax \in Ints, pos \in BOOLEAN :
          /\ xmin < xmax
          /\ norm' = Normalizer_init(RInt(xmin), RInt(xmax), pos)
    /\ prog' = "Normalizer"
    /\ UNCHANGED <<calls, mnorm, mcalls, trainvars>>

\* norm.forward(x) (also norm(x), the alias __call__)
Normalizer_call_forward ==
    /\ prog = "Normalizer"
    /\ \E x \in XInputs :
          calls' = << [op |-> "forward", arg |-> x, ret |-> Normalizer_forward(norm, x)] >>
    /\ UNCHANGED <<prog, norm, mnorm, mcalls, trainvars>>

\* norm.inverse(xn)
Normalizer_call_inverse ==
    /\ prog = "Normalizer"
    /\ \E xn \in XnInputs :
          calls' = << [op |-> "inverse", arg |-> xn, ret |-> Normalizer_inverse(norm, xn)] >>
    /\ UNCHANGED <<prog, norm, mnorm, mcalls, trainvars>>

\* norm.inverse(y) where y is the value the preceding forward returned
Normalizer_inverse_of_forward ==
    /\ prog = "Normalizer"
    /\ Len(calls) = 1 /\ calls[1].op = "forward"
    /\ calls' = Append(calls, [op |-> "inverse", arg |-> calls[1].ret,
                               ret |-> Normalizer_inverse(norm, calls[1].ret)])
    /\ UNCHANGED <<prog, norm, mnorm, mcalls, trainvars>>

\* norm.forward(y) where y is the value the preceding inverse returned
Normalizer_forward_of_inverse ==
    /\ prog = "Normalizer"
    /\ Len(calls) = 1 /\ calls[1].op = "inverse"
    /\ calls' = Append(calls, [op |-> "forward", arg |-> calls[1].ret,
                               ret |-> Normalizer_forward(norm, calls[1].ret)])
    /\ UNCHANGED <<prog, norm, mnorm, mcalls, trainvars>>

\* -------------------------------------------------- MultiNormalizer actions
\* MultiNormalizer(**kwargs)
MultiNormalizer_new ==
    /\ prog = "idle"
    /\ \E kwargs \in MNKwargs : mnorm' = MultiNormalizer_init(kwargs)
    /\ prog' = "MultiNormalizer"
    /\ UNCHANGED <<norm, calls, mcalls, trainvars>>

\* mnorm.forward(multi_var) (also mnorm(multi_var))
MultiNormalizer_call_forward ==
    /\ prog = "MultiNormalizer"
    /\ \E mv \in MVInputs :
          mcalls' = << [op |-> "forward", arg |-> mv,
                        ret |-> MultiNormalizer_forward(mnorm, mv)] >>
    /\ UNCHANGED <<prog, norm, calls, mnorm, trainvars>>

\* mnorm.inverse(mvn) where mvn is what the preceding forward returned
MultiNormalizer_inverse_of_forward ==
    /\ prog = "MultiNormalizer"
    /\ Len(mcalls) = 1 /\ mcalls[1].op = "forward" /\ mcalls[1].ret.exc = "none"
    /\ mcalls' = Append(mcalls, [op |-> "inverse", arg |-> mcalls[1].ret.val,
                                 ret |-> MultiNormalizer_inverse(mnorm, mcalls[1].ret.val)])
    /\ UNCHANGED <<prog, norm, calls, mnorm, trainvars>>

\* ---------------------------------------------------- DeepHPM.train actions
\* the kind of event a session run is: an optimizer step or an evaluation
RunEvent(fetches) == IF SessRunSteps(fetches) > 0 THEN "step" ELSE "eval"

\* model.train(train, test, batch_size, n_epochs, verbose): entry, lines 252-254
DeepHPM_train ==
    /\ prog = "idle"
    /\ \E nt \in 1..MaxColl, bs \in 1..MaxBatchSize, ne \in 0..MaxEpochs,
          test \in TestChoices, verbose \in BOOLEAN :
          /\ args' = [n_boundary |-> 0, n_train |-> nt, batch_size |-> bs,
                      n_epochs |-> ne, test |-> test, verbose |-> verbose, dskip |-> 0]
          /\ n_batches' = DeepHPM_n_batches(nt, bs)
    /\ prog' = "DeepHPM"
    /\ pc' = "epoch"
    /\ epoch' = 0
    /\ UNCHANGED <<normvars, exc, boundary_batch, n_batches_boundary, b, start,
                   start_boundary, ind, bnd, coll, feeds, trace, steps, evals,
                   last_eval, logs, ganvars>>

\* head of an epoch: draw the permutation, shuffle, reset the minibatch loop
DeepHPM_epoch ==
    /\ prog = "DeepHPM" /\ pc = "epoch" /\ epoch < args.n_epochs
    /\ \E p \in Permutation(args.n_train) :
          /\ ind' = p
          /\ coll' = DeepHPM_shuffle(DataSet(args.n_boundary, args.n_train), p)
    /\ start' = 0
    /\ b' = 0
    /\ feeds' = <<>>
    /\ trace' = <<>>
    /\ pc' = IF n_batches > 0 THEN "batch" ELSE "endepoch"
    /\ UNCHANGED <<prog, normvars, args, exc, n_batches, boundary_batch,
                   n_batches_boundary, epoch, start_boundary, bnd, steps, evals,
                   last_eval, logs, ganvars>>

\* one pass of the minibatch loop: feed, run the training operation, advance
DeepHPM_minibatch ==
    /\ prog = "DeepHPM" /\ pc = "batch" /\ b < n_batches
    /\ feeds' = Append(feeds, DeepHPM_feed(coll, start, args.batch_size))
    /\ steps' = steps + SessRunSteps(DeepHPM_train_fetches)
    /\ trace' = Append(trace, RunEvent(DeepHPM_train_fetches))
    /\ start' = start + args.batch_size
    /\ b' = b + 1
    /\ pc' = IF b + 1 < n_batches THEN "batch" ELSE "endepoch"
    /\ UNCHANGED <<prog, normvars, args, exc, n_batches, boundary_batch,
                   n_batches_boundary, epoch, start_boundary, ind, bnd, coll,
                   evals, last_eval, logs, ganvars>>

\* rest of the epoch body: held-out evaluation if test is given, log line if
\* verbose; then the next epoch
DeepHPM_endepoch ==
    /\ prog = "DeepHPM" /\ pc = "endepoch"
    /\ IF args.test.given
       THEN /\ evals' = evals + 1
            /\ last_eval' = << DeepHPM_test_feed(DataSet(args.test.n, args.test.n)) >>
            /\ steps' = steps + SessRunSteps(DeepHPM_test_fetches)
       ELSE UNCHANGED <<evals, last_eval, steps>>
    /\ trace' = trace
                \o (IF args.test.given THEN <<RunEvent(DeepHPM_test_fetches)>> ELSE <<>>)
                \o (IF args.verbose THEN <<"log">> ELSE <<>>)
    /\ logs' = IF args.verbose THEN Append(logs, epoch) ELSE logs
    /\ epoch' = epoch + 1
    /\ pc' = "epoch"
    /\ UNCHANGED <<prog, normvars, args, exc, n_batches, boundary_batch,
                   n_batches_boundary, b, start, start_boundary, ind, bnd, coll,
                   feeds, ganvars>>

\* the epoch loop is exhausted: train returns
DeepHPM_return ==
    /\ prog = "DeepHPM" /\ pc = "epoch" /\ epoch >= args.n_epochs
    /\ pc' = "done"
    /\ UNCHANGED <<prog, normvars, args, exc, loopvars, ganvars>>

\* ------------------------------------------------------- PINN.train actions
\* model.train(train, test, batch_size, n_epochs, verbose): entry, lines 82-92
PINN_train ==
    /\ prog = "idle"
    /\ \E nbd \in 1..MaxBoundary, nt \in 1..MaxColl, bs \in 1..MaxBatchSize,
          ne \in 0..MaxEpochs, test \in TestChoices, verbose \in BOOLEAN :
          /\ args' = [n_boundary |-> nbd, n_train |-> nt, batch_size |-> bs,
                      n_epochs |-> ne, test |-> test, verbose |-> verbose, dskip |-> 0]
          /\ n_batches' = PINN_n_batches(nt, bs)
          /\ boundary_batch' = PINN_boundary_batch(nbd, PINN_n_batches(nt, bs))
          /\ n_batches_boundary' =
                PINN_n_batches_boundary(nbd, PINN_boundary_batch(nbd, PINN_n_batches(nt, bs)))
    /\ prog' = "PINN"
    /\ pc' = "epoch"
    /\ epoch' = 0
    /\ UNCHANGED <<normvars, exc, b, start, start_boundary, ind, bnd, coll, feeds,
                   trace, steps, evals, last_eval, logs, ganvars>>

\* head of an epoch: two independent permutations, one per population
PINN_epoch ==
    /\ prog = "PINN" /\ pc = "epoch" /\ epoch < args.n_epochs
    /\ \E pb \in Permutation(args.n_boundary), pt \in Permutation(args.n_train) :
          /\ bnd' = PINN_shuffle_boundary(DataSet(args.n_boundary, args.n_train), pb)
          /\ coll' = PINN_shuffle_coll(DataSet(args.n_boundary, args.n_train), pt)
          /\ ind' = pt
    /\ start' = 0
    /\ start_boundary' = 0
    /\ b' = 0
    /\ feeds' = <<>>
    /\ trace' = <<>>
    /\ pc' = IF n_batches > 0 THEN "batch" ELSE "endepoch"
    /\ UNCHANGED <<prog, normvars, args, exc, n_batches, boundary_batch,
                   n_batches_boundary, epoch, steps, evals, last_eval, logs, ganvars>>

\* one pass of the minibatch loop
PINN_minibatch ==
    /\ prog = "PINN" /\ pc = "batch" /\ b < n_batches
    /\ feeds' = Append(feeds, PINN_feed(bnd, coll, start_boundary, boundary_batch,
                                        start, args.batch_size))
    /\ steps' = steps + SessRunSteps(PINN_train_fetches)
    /\ trace' = Append(trace, RunEvent(PINN_train_fetches))
    /\ start' = start + args.batch_size
    /\ start_boundary' = start_boundary + boundary_batch
    /\ b' = b + 1
    /\ pc' = IF b + 1 < n_batches THEN "batch" ELSE "endepoch"
    /\ UNCHANGED <<prog, normvars, args, exc, n_batches, boundary_batch,
                   n_batches_boundary, epoch, ind, bnd, coll, evals, last_eval,
                   logs, ganvars>>

\* rest of the epoch body: held-out evaluation, log line
PINN_endepoch ==
    /\ prog = "PINN" /\ pc = "endepoch"
    /\ IF args.test.given
       THEN /\ evals' = evals + 1
            /\ last_eval' = << PINN_test_feed(DataSet(args.test.n, args.test.n)) >>
            /\ steps' = steps + SessRunSteps(PINN_test_fetches)
       ELSE UNCHANGED <<evals, last_eval, steps>>
    /\ trace' = trace
                \o (IF args.test.given THEN <<RunEvent(PINN_test_fetches)>> ELSE <<>>)
                \o (IF args.verbose THEN <<"log">> ELSE <<>>)
    /\ logs' = IF args.verbose THEN Append(logs, epoch) ELSE logs
    /\ epoch' = epoch + 1
    /\ pc' = "epoch"
    /\ UNCHANGED <<prog, normvars, args, exc, n_batches, boundary_batch,
                   n_batches_boundary, b, start, start_boundary, ind, bnd, coll,
                   feeds, ganvars>>

PINN_return ==
    /\ prog = "PINN" /\ pc = "epoch" /\ epoch >= args.n_epochs
    /\ pc' = "done"
    /\ UNCHANGED <<prog, normvars, args, exc, loopvars, ganvars>>

\* -------------------------------------------------------- GAN.train actions
\* model.train(Xb_train, Tb_train, Ub_train, Xcoll_train, Tcoll_train,
\* batch_size, n_epochs, dskip, verbose): lines 149-154 reshape the boundary
\* arrays and read n_train; line 155 evaluates np.ceil, and np is neither a
\* local of train nor bound in the module (generate.py imports tensorflow and
\* .common only), so the call ends there with NameError: no epoch is entered.
GAN_train ==
    /\ prog = "idle"
    /\ \E nbd \in 1..MaxBoundary, nt \in 1..MaxColl, bs \in 1..MaxBatchSize,
          ne \in (0..MaxEpochs) \cup {CheckpointPeriod + 1},
          dskip \in 1..MaxDskip, verbose \in BOOLEAN :
          args' = [n_boundary |-> nbd, n_train |-> nt, batch_size |-> bs,
                   n_epochs |-> ne, test |-> [given |-> FALSE, n |-> 0],
                   verbose |-> verbose, dskip |-> dskip]
    /\ "np" \notin (GAN_train_locals \cup generate_globals)
    /\ exc' = "NameError"
    /\ prog' = "GAN"
    /\ pc' = "raised"
    /\ UNCHANGED <<normvars, loopvars, ganvars>>

\* ---------------------------------------------------------- Encoder actions
\* Encoder(layer_sizes): a hidden layer and the final layer of width w
Encoder_new ==
    /\ prog = "idle"
    /\ \E h \in 1..MaxWidth, w \in 1..MaxWidth : encoder' = Encoder_init(<<h, w>>)
    /\ prog' = "Encoder"
    /\ UNCHANGED <<normvars, pc, args, exc, loopvars, gen_steps, disc_steps,
                   checkpoints, gan_losses, q_z>>

\* encoder(x, t, u) as GAN.build calls it, next to the prior sample it draws
Encoder_call_row ==
    /\ prog = "Encoder"
    /\ \E gp \in DenseNet_rows(encoder.layer_sizes) :
          q_z' = [params |-> gp,
                  mean |-> Encoder_call(encoder, gp).mean,
                  std |-> Encoder_call(encoder, gp).std,
                  prior_width |-> GAN_build_latent_width(encoder)]
    /\ UNCHANGED <<prog, normvars, pc, args, exc, loopvars, gen_steps, disc_steps,
                   checkpoints, gan_losses, encoder>>

Next ==
    \/ Normalizer_new
    \/ Normalizer_call_forward
    \/ Normalizer_call_inverse
    \/ Normalizer_inverse_of_forward
    \/ Normalizer_forward_of_inverse
    \/ MultiNormalizer_new
    \/ MultiNormalizer_call_forward
    \/ MultiNormalizer_inverse_of_forward
    \/ DeepHPM_train
    \/ DeepHPM_epoch
    \/ DeepHPM_minibatch
    \/ DeepHPM_endepoch
    \/ DeepHPM_return
    \/ PINN_train
    \/ PINN_epoch
    \/ PINN_minibatch
    \/ PINN_endepoch
    \/ PINN_return
    \/ GAN_train
    \/ Encoder_new
    \/ Encoder_call_row

Spec == Init /\ [][Next]_vars

\* =================================================================== claims
Terminated == pc \in {"done", "raised"}
Train == DataSet(args.n_boundary, args.n_train)

\* concatenation, in order, of a sequence of sequences
RECURSIVE Flatten(_)
Flatten(ss) == IF ss = <<>> THEN <<>> ELSE Head(ss) \o Flatten(Tail(ss))

\* C1: PINN.train batch synchronization: for every n_boundary, n_collocation,
\* batch_size >= 1 the number of boundary batches ceil(n_boundary /
\* boundary_batch) equals the number of collocation batches n_batches.
C1_BatchCountsEqual ==
    (prog = "PINN" /\ pc # "idle") => n_batches_boundary = n_batches

\* C2: GAN.train discriminator cadence: once train has ended, the number of
\* discriminator optimizer steps is ceil(n_epochs / dskip) * n_batches, with
\* n_batches = ceil(n_train / batch_size).
C2_DiscriminatorSteps ==
    (prog = "GAN" /\ Terminated) =>
        disc_steps = ((args.n_epochs + args.dskip - 1) \div args.dskip)
                     * ((args.n_train + args.batch_size - 1) \div args.batch_size)

\* C3: MultiNormalizer.inverse applied to what forward returned gives back a
\* MultiVariable that equals the original input on every registered name.
C3_InverseOfForward ==
    (prog = "MultiNormalizer" /\ Len(mcalls) = 2) =>
        /\ mcalls[2].ret.exc = "none"
        /\ \A i \in 1..Len(mnorm.normalizers) :
              LET name == mnorm.normalizers[i][1]
              IN  /\ name \in MV_names(mcalls[2].ret.val)
                  /\ MV_get(mcalls[2].ret.val, name) = MV_get(mcalls[1].arg, name)

\* C4: Normalizer round trip: inverse(forward(x)) = x and
\* forward(inverse(xn)) = xn, exactly, for every xmin < xmax and both pos.
C4_RoundTrip ==
    (prog = "Normalizer" /\ Len(calls) = 2) => calls[2].ret = calls[1].arg

C4_Witness ==
    /\ prog = "Normalizer" /\ Len(calls) = 2
    /\ calls[1].op = "forward" /\ calls[2].op = "inverse"
    /\ ~norm.pos
    /\ RLeq(norm.xmin, calls[1].arg) /\ RLeq(calls[1].arg, norm.xmax)
    /\ calls[1].ret # calls[1].arg

\* C5: Normalizer.forward maps [xmin, xmax] onto [0, 1] (pos) or [-1, 1]
\* (not pos): forward(xmin) is the lower end, forward(xmax) = 1, every x of
\* [xmin, xmax] lands inside the interval, and every xn of the interval is
\* the image of a point of [xmin, xmax] (its inverse).
NormLow == IF norm.pos THEN RInt(0) ELSE RInt(-1)
InRange(x) == RLeq(norm.xmin, x) /\ RLeq(x, norm.xmax)
InNormRange(xn) == RLeq(NormLow, xn) /\ RLeq(xn, RInt(1))

C5_ForwardRange ==
    prog = "Normalizer" =>
        /\ \A i \in 1..Len(calls) :
              calls[i].op = "forward" =>
                 /\ calls[i].arg = norm.xmin => calls[i].ret = NormLow
                 /\ calls[i].arg = norm.xmax => calls[i].ret = RInt(1)
                 /\ InRange(calls[i].arg) => InNormRange(calls[i].ret)
        /\ (Len(calls) = 2 /\ calls[1].op = "inverse" /\ InNormRange(calls[1].arg)) =>
              /\ InRange(calls[1].ret)
              /\ calls[2].ret = calls[1].arg

C5_Witness ==
    /\ prog = "Normalizer" /\ Len(calls) = 1
    /\ calls[1].op = "forward" /\ ~norm.pos
    /\ calls[1].arg = norm.xmax /\ calls[1].ret = RInt(1)

\* C6 as stated: for every input, what forward returns has exactly the
\* input's variable names.
RegisteredNames == {mnorm.normalizers[i][1] : i \in 1..Len(mnorm.normalizers)}

C6_OutputHasInputNames ==
    (prog = "MultiNormalizer" /\ Len(mcalls) >= 1 /\ mcalls[1].ret.exc = "none") =>
        MV_names(mcalls[1].ret.val) = MV_names(mcalls[1].arg)

\* C6 (amended): for every input MultiVariable that has an entry for every
\* registered name, forward returns a MultiVariable with exactly the
\* registered names, in registration order, each entry being the input entry
\* of that name transformed by the Normalizer registered under it; entries of
\* the input under other names are left out.
C6_ForwardStructural ==
    (prog = "MultiNormalizer" /\ Len(mcalls) >= 1
        /\ RegisteredNames \subseteq MV_names(mcalls[1].arg)) =>
        /\ mcalls[1].ret.exc = "none"
        /\ Len(mcalls[1].ret.val) = Len(mnorm.normalizers)
        /\ \A i \in 1..Len(mnorm.normalizers) :
              LET name == mnorm.normalizers[i][1]
                  z == mnorm.normalizers[i][2]
                  x == MV_get(mcalls[1].arg, name)
              IN  mcalls[1].ret.val[i] =
                     <<name, IF z.pos THEN RDiv(RSub(x, z.xmin), RSub(z.xmax, z.xmin))
                             ELSE RSub(RDiv(RMul(RInt(2), RSub(x, z.xmin)),
                                            RSub(z.xmax, z.xmin)), RInt(1))>>

C6_Witness ==
    /\ prog = "MultiNormalizer" /\ Len(mcalls) = 1
    /\ RegisteredNames = {"a", "b"}
    /\ MV_names(mcalls[1].arg) = {"a", "b", "c"}
    /\ mcalls[1].ret.exc = "none"
    /\ MV_names(mcalls[1].ret.val) = {"a", "b"}
    /\ MV_get(mcalls[1].ret.val, "a") # MV_get(mcalls[1].arg, "a")

NumBatches == (args.n_train + args.batch_size - 1) \div args.batch_size

C9_Checkpoints ==
    (prog = "GAN" /\ Terminated) =>
        checkpoints = {e \in 0..(args.n_epochs - 1) : e # 0 /\ e % CheckpointPeriod = 0}

\* C10: DeepHPM.train and PINN.train step accounting: every epoch is
\* n_batches optimizer steps, then one held-out evaluation on the whole
\* held-out set if one is given, then one log line if verbose, in this order;
\* the evaluation is no optimizer step; after train returns n_epochs *
\* n_batches optimizer steps were made.
Repeat(x, n) == [i \in 1..n |-> x]
EpochEvents ==
    Repeat("step", NumBatches)
    \o (IF args.test.given THEN <<"eval">> ELSE <<>>)
    \o (IF args.verbose THEN <<"log">> ELSE <<>>)
IsPrefix(u, v) == Len(u) <= Len(v) /\ u = SubSeq(v, 1, Len(u))
Heldout == DataSet(args.test.n, args.test.n)

C10_StepAccounting ==
    (prog \in {"DeepHPM", "PINN"}) =>
        /\ pc \in {"batch", "endepoch"} =>
              /\ steps = epoch * NumBatches + b
              /\ evals = (IF args.test.given THEN epoch ELSE 0)
              /\ logs = (IF args.verbose THEN [i \in 1..epoch |-> i - 1] ELSE <<>>)
              /\ trace = Repeat("step", b)
        /\ pc \in {"epoch", "done"} =>
              /\ steps = epoch * NumBatches
              /\ evals = (IF args.test.given THEN epoch ELSE 0)
              /\ logs = (IF args.verbose THEN [i \in 1..epoch |-> i - 1] ELSE <<>>)
              /\ epoch > 0 => trace = EpochEvents
        /\ pc = "done" => (epoch = args.n_epochs /\ steps = args.n_epochs * NumBatches)
        /\ (evals > 0 /\ prog = "DeepHPM") =>
              last_eval = << [X |-> Heldout.xcoll, Y |-> Heldout.ycoll, T |-> Heldout.tcoll,
                              U |-> Heldout.ucoll, V |-> Heldout.vcoll, W |-> Heldout.wcoll] >>
        /\ (evals > 0 /\ prog = "PINN") =>
              /\ Len(last_eval[1].Xb) = args.test.n
              /\ Len(last_eval[1].Xcoll) = args.test.n

C10_Witness ==
    /\ prog = "DeepHPM" /\ pc = "done"
    /\ args.n_epochs = 2 /\ args.test.given /\ args.verbose
    /\ NumBatches = 2 /\ steps = 4 /\ evals = 2 /\ logs = <<0, 1>>

\* C11: GAN.train generator/discriminator alternation: once train has ended,
\* the generator-side optimizer step was run once for every minibatch of
\* every epoch, n_epochs * n_batches steps in all whatever dskip is, and the
\* discriminator steps (those of the epochs e with e % dskip = 0) never
\* outnumber them.
C11_GeneratorSteps ==
    (prog = "GAN" /\ Terminated) =>
        /\ gen_steps = args.n_epochs * NumBatches
        /\ disc_steps <= gen_steps

\* C12 as stated: for every final width w >= 2 the mean is the first
\* latent_dim = w // 2 columns unmodified, the scale is the softplus of the
\* remaining columns, and mean and scale both have exactly latent_dim
\* columns, the width of the prior sample.
EncWidth == encoder.layer_sizes[Len(encoder.layer_sizes)]
EncCalled == prog = "Encoder" /\ q_z.params # <<>>
EncSplit ==
    /\ q_z.mean = [i \in 1..(EncWidth \div 2) |-> q_z.params[i]]
    /\ q_z.std = [i \in 1..(EncWidth - EncWidth \div 2) |->
                     <<"softplus", q_z.params[EncWidth \div 2 + i]>>]
    /\ Len(q_z.mean) = q_z.prior_width

C12_EqualWidths ==
    (EncCalled /\ EncWidth >= 2) =>
        /\ EncSplit
        /\ Len(q_z.mean) = EncWidth \div 2
        /\ Len(q_z.std) = EncWidth \div 2
        /\ Len(q_z.std) = q_z.prior_width

\* C12 (amended): for every final width w >= 2, with latent_dim = w // 2, the
\* mean is the first latent_dim columns unmodified and has the width of the
\* prior sample, and the scale is the softplus of the remaining
\* w - latent_dim columns: latent_dim columns when w is even, latent_dim + 1
\* when w is odd.
C12_EncoderSplit ==
    (EncCalled /\ EncWidth >= 2) =>
        /\ EncSplit
        /\ Len(q_z.mean) = EncWidth \div 2
        /\ EncWidth % 2 = 0 => Len(q_z.std) = Len(q_z.mean)
        /\ EncWidth % 2 = 1 => Len(q_z.std) = Len(q_z.mean) + 1

C12_Witness ==
    /\ EncCalled /\ EncWidth = 4
    /\ q_z.params = <<0, 1, 1, 0>>
    /\ q_z.mean = <<0, 1>>
    /\ q_z.std = << <<"softplus", 1>>, <<"softplus", 0>> >>
    /\ q_z.prior_width = 2

\* C13: PINN.train boundary coverage: in every epoch the boundary slices fed
\* over the n_batches optimizer steps are pairwise disjoint and together hold
\* every one of the n_boundary shuffled boundary points exactly once: slice j
\* is the run of the shuffled boundary arrays that follows slices 1..j-1, and
\* at the end of the minibatch loop the slices concatenated are the shuffled
\* boundary arrays (slices past the end of the arrays are empty).
FedXb == Flatten([j \in 1..Len(feeds) |-> feeds[j].Xb])
FedYb == Flatten([j \in 1..Len(feeds) |-> feeds[j].Yb])
FedTb == Flatten([j \in 1..Len(feeds) |-> feeds[j].Tb])
FedWb == Flatten([j \in 1..Len(feeds) |-> feeds[j].Wb])

C13_BoundaryCoverage ==
    (prog = "PINN" /\ pc \in {"batch", "endepoch"}) =>
        /\ IsPrefix(FedXb, bnd.Xb)
        /\ IsPrefix(FedYb, bnd.Yb)
        /\ IsPrefix(FedTb, bnd.Tb)
        /\ IsPrefix(FedWb, bnd.Wb)
        /\ \A i, j \in 1..Len(feeds) :
              i # j => {feeds[i].Xb[k] : k \in 1..Len(feeds[i].Xb)}
                       \cap {feeds[j].Xb[k] : k \in 1..Len(feeds[j].Xb)} = {}
        /\ pc = "endepoch" =>
              /\ Len(feeds) = NumBatches
              /\ FedXb = bnd.Xb /\ FedYb = bnd.Yb
              /\ FedTb = bnd.Tb /\ FedWb = bnd.Wb
              /\ {bnd.Xb[k] : k \in 1..Len(bnd.Xb)} = 1..args.n_boundary

C13_Witness ==
    /\ prog = "PINN" /\ pc = "endepoch"
    /\ args.n_boundary = 2 /\ args.n_train = 3 /\ args.batch_size = 2
    /\ bnd.Xb = <<2, 1>>
    /\ Len(feeds) = 2 /\ feeds[1].Xb = <<2>> /\ feeds[2].Xb = <<1>>

\* C14: GAN.train reported discriminator loss: once train has ended, the
\* losses array has one row per epoch, and the discriminator loss of row e is
\* defined: it is the mean of the discriminator losses of the most recent
\* epoch e' <= e with e' % dskip = 0 (epoch e itself when it updates the
\* discriminator; epoch 0 always does).  A row is [epoch, disc], disc naming
\* the epoch whose mean discriminator loss it holds.
C14_DiscLossDefined ==
    (prog = "GAN" /\ Terminated) =>
        /\ Len(gan_losses) = args.n_epochs
        /\ \A e \in 0..(args.n_epochs - 1) :
              /\ gan_losses[e + 1].epoch = e
              /\ gan_losses[e + 1].disc = e - (e % args.dskip)

====
